---- MODULE Spec2Model ----
(***************************************************************************)
(* The request dispatcher of the API client (ApiClient.tsx, sendRequest)   *)
(* and the error view of ResponseViewer, as a state machine.               *)
(*                                                                         *)
(* Strings are sequences of tokens: a URL, a body and a response text are  *)
(* sequences of characters; a message is the sequence of its literal parts *)
(* and of the characters of the values interpolated into it.               *)
(***************************************************************************)
EXTENDS Integers, Sequences, FiniteSets, TLC

VARIABLES
    url, method, body, certificate,      \* useState: the request form
    loading, response, errorDetails,     \* useState: the result
    toast,                               \* title of the last toast raised
    console,                             \* the last line console.log wrote
    pc,                                  \* where the pending sendRequest is suspended
    pending,                             \* the fetch call in flight: its url and options
    res,                                 \* the Response fetch resolved with
    headers,                             \* local `headers` of sendRequest
    startTime, endTime,                  \* locals of sendRequest
    now,                                 \* Date.now(), counted from the last read of startTime
    calls,                               \* fetch calls issued by the current submission
    outcome,                             \* what the last submission past the URL guard met
    hRaw, hIdx, hOut,                    \* header collection on its own
    dType, dText, dData, dDone,          \* body decoding on its own
    eStatus, eText,                      \* status explanation on its own
    activeTab                            \* useState of ResponseViewer

vars == <<url, method, body, certificate, loading, response, errorDetails, toast,
          console, pc, pending, res, headers, startTime, endTime, now, calls, outcome,
          hRaw, hIdx, hOut, dType, dText, dData, dDone, eStatus, eText,
          activeTab>>

mainVars == <<url, method, body, certificate, loading, response, errorDetails, toast,
              console, pc, pending, res, headers, startTime, endTime, now, calls, outcome>>
hdrVars == <<hRaw, hIdx, hOut>>
decVars == <<dType, dText, dData, dDone>>
expVars == <<eStatus, eText>>
viewerVars == <<activeTab>>
sideVars == <<hdrVars, decVars, expVars, viewerVars>>

-----------------------------------------------------------------------------
(* Bounds *)

MaxClock == 1       \* longest time a submission takes
MaxTextLen == 3     \* longest response text decoded on its own
MaxHdrs == 3        \* most (name, value) pairs in one raw header list

-----------------------------------------------------------------------------
(* Values *)

Null == [isNull |-> TRUE]

RECURSIVE Strings(_, _)
Strings(alphabet, n) ==
    IF n = 0 THEN {<<>>}
    ELSE LET shorter == Strings(alphabet, n - 1)
         IN  shorter \cup {Append(s, c) : s \in {t \in shorter : Len(t) = n - 1}, c \in alphabet}

HttpMethods == {"GET", "POST", "PUT", "DELETE", "PATCH", "OPTIONS", "HEAD"}

\* URLs the user can type: empty, without a scheme, with a scheme.
Urls == {<<>>, <<"h">>, <<":", "h">>, <<"h", ":">>}

\* Request bodies the user can type and texts a response can carry.
Bodies == {<<>>, <<"1">>, <<"{">>}

JsonAlphabet == {" ", "{", "}", "[", "]", "1"}

Files == {"a.pem"}

\* Statuses fetch can resolve with (mode cors, redirect follow): never 0.
Statuses == {200, 304, 404}

AllStatuses == 200..599

ReasonPhrase(status) ==
    CASE status = 200 -> "OK"
      [] status = 304 -> "Not Modified"
      [] status = 404 -> "Not Found"
      [] status = 503 -> "Service Unavailable"
      [] OTHER -> ""

JsonType == <<"application/json">>
HeaderValues == {JsonType, <<"text/plain">>}
HeaderNames == {"content-type", "x-id", "__proto__"}

Hdr(n, v) == [name |-> n, value |-> v]

\* Raw header lists of the responses of the dispatcher.
HeaderLists == {<<>>, <<Hdr("content-type", JsonType)>>}

FailedToFetch == <<"Failed to fetch">>

\* What fetch rejects with: a TypeError whose message and stack the engine chooses.
TransportErrors ==
    {[name |-> "TypeError", message |-> FailedToFetch, stack |-> <<"stack">>],
     [name |-> "TypeError", message |-> <<"TypeError: ">> \o FailedToFetch, stack |-> <<"stack">>],
     [name |-> "TypeError", message |-> <<"NetworkError when attempting to fetch resource.">>,
      stack |-> <<>>],
     [name |-> "TypeError", message |-> <<>>, stack |-> <<>>]}

\* What reading a body rejects with before any text is decoded.
ReadErrors == {[name |-> "TypeError", message |-> <<"network error">>, stack |-> <<>>]}

-----------------------------------------------------------------------------
(* String helpers *)

Includes(s, needle) ==
    \E i \in 1..(Len(s) - Len(needle) + 1) : SubSeq(s, i, i + Len(needle) - 1) = needle

StartsWith(s, c) == Len(s) > 0 /\ s[1] = c

IsSpace(c) == c = " "

RECURSIVE TrimStart(_)
TrimStart(s) == IF s # <<>> /\ IsSpace(Head(s)) THEN TrimStart(Tail(s)) ELSE s

RECURSIVE TrimEnd(_)
TrimEnd(s) ==
    IF s # <<>> /\ IsSpace(s[Len(s)]) THEN TrimEnd(SubSeq(s, 1, Len(s) - 1)) ELSE s

Trim(s) == TrimEnd(TrimStart(s))

RECURSIVE Join(_, _)
Join(seqs, sep) ==
    IF seqs = <<>> THEN <<>>
    ELSE IF Len(seqs) = 1 THEN seqs[1]
    ELSE seqs[1] \o sep \o Join(Tail(seqs), sep)

RECURSIVE SelectValues(_, _)
SelectValues(raw, name) ==
    IF raw = <<>> THEN <<>>
    ELSE IF raw[1].name = name THEN <<raw[1].value>> \o SelectValues(Tail(raw), name)
    ELSE SelectValues(Tail(raw), name)

-----------------------------------------------------------------------------
(* new URL(url): parsing without a base succeeds only with a scheme *)

IsSchemeChar(c) == c = "h"

URLParsesWithBase(u) == TRUE

URLParses(u) ==
    LET t == Trim(u)
    IN  \E i \in 2..Len(t) : t[i] = ":" /\ \A j \in 1..(i - 1) : IsSchemeChar(t[j])

-----------------------------------------------------------------------------
(* JSON.parse over JsonAlphabet: numbers 1, 11, ..., {} and nested arrays *)

RECURSIVE IsJsonValue(_)
IsJsonValue(s) ==
    LET t == Trim(s)
        inner == SubSeq(t, 2, Len(t) - 1)
    IN  /\ t # <<>>
        /\ \/ \A i \in 1..Len(t) : t[i] = "1"
           \/ Len(t) >= 2 /\ t[1] = "{" /\ t[Len(t)] = "}" /\ Trim(inner) = <<>>
           \/ Len(t) >= 2 /\ t[1] = "[" /\ t[Len(t)] = "]"
                /\ (Trim(inner) = <<>> \/ IsJsonValue(inner))

\* The value a valid text denotes: its tokens without the insignificant whitespace.
JsonValueOf(s) == SelectSeq(s, LAMBDA c : ~IsSpace(c))

JsonErrorMessage(s) ==
    IF Trim(s) = <<>> THEN <<"Unexpected end of JSON input">>
    ELSE <<"Unexpected token in JSON">>

JsonParse(s) ==
    IF IsJsonValue(s) THEN [ok |-> TRUE, value |-> JsonValueOf(s)]
    ELSE [ok |-> FALSE,
          error |-> [name |-> "SyntaxError", message |-> JsonErrorMessage(s), stack |-> <<"stack">>]]

StringData(s) == [type |-> "string", val |-> s]
JsonData(v) == [type |-> "json", val |-> v]

-----------------------------------------------------------------------------
(* formatErrorDetails (ApiClient.tsx 65-102) *)

IsError(error) == "name" \in DOMAIN error

TypeErrorNote ==
    <<"\n\nThis is a TypeError, which often occurs when:",
      "\n- Trying to access properties of undefined or null",
      "\n- Calling a non-function value",
      "\n- Incompatible value types in an operation">>

SyntaxErrorNote ==
    <<"\n\nThis is a SyntaxError, which typically occurs when:",
      "\n- JSON parsing failed due to malformed data",
      "\n- Invalid syntax in dynamic code evaluation">>

URIErrorNote ==
    <<"\n\nThis is a URIError, which occurs when:",
      "\n- Malformed URI components in encoding/decoding functions">>

formatErrorDetails(error) ==
    IF IsError(error)
    THEN <<"Error Type: ", error.name, "\nMessage: ">> \o error.message
         \o (IF error.stack # <<>> THEN <<"\n\nStack Trace:\n">> \o error.stack ELSE <<>>)
         \o (CASE error.name = "TypeError" -> TypeErrorNote
               [] error.name = "SyntaxError" -> SyntaxErrorNote
               [] error.name = "URIError" -> URIErrorNote
               [] OTHER -> <<>>)
    ELSE IF "primitive" \in DOMAIN error
    THEN <<"Unexpected error: ">> \o error.primitive
    ELSE <<"Error Object Properties:\n">>

-----------------------------------------------------------------------------
(* The errors sendRequest throws itself (ApiClient.tsx 124, 140) *)

InvalidUrlError(u) ==
    [name |-> "Error",
     message |-> <<"Invalid URL: ">> \o u
                 \o <<". Make sure to include the protocol (http:// or https://).">>,
     stack |-> <<"stack">>]

InvalidBodyError(parseError) ==
    [name |-> "Error",
     message |-> <<"Invalid JSON in request body: ">> \o parseError.message
                 \o <<". Please check your JSON syntax.">>,
     stack |-> <<"stack">>]

-----------------------------------------------------------------------------
(* The body of the request (ApiClient.tsx 127-142) *)

NoBodyMethodsGetOnly == {"GET"}

NoBodyMethods == {"GET", "HEAD"}

\* What lines 134-142 do with the body held in state: whether JSON.parse ran on
\* it, what is attached to the options, and the error thrown.
RequestBodySwallow(m, b) ==
    IF m \notin NoBodyMethods /\ b # <<>>
    THEN [parsed |-> TRUE, attached |-> [value |-> b], error |-> Null]
    ELSE [parsed |-> FALSE, attached |-> Null, error |-> Null]

RequestBody(m, b) ==
    IF m \notin NoBodyMethods /\ b # <<>>
    THEN LET p == JsonParse(b)
         IN  IF p.ok
             THEN [parsed |-> TRUE, attached |-> [value |-> b], error |-> Null]
             ELSE [parsed |-> TRUE, attached |-> Null, error |-> InvalidBodyError(p.error)]
    ELSE [parsed |-> FALSE, attached |-> Null, error |-> Null]

RequestOptions(m, b) ==
    [method |-> m,
     headers |-> <<Hdr("Content-Type", JsonType)>>,
     body |-> RequestBody(m, b).attached]

\* The line logged for a selected certificate (144-146).
CertificateLog(cert) == [text |-> <<"Certificate would be used for SSL: ", cert.name>>]

FetchCallWithCertificate(u, m, b, cert) ==
    [url |-> u,
     options |-> IF cert = Null THEN RequestOptions(m, b)
                 ELSE [RequestOptions(m, b) EXCEPT
                          !.headers = @ \o <<Hdr("X-Client-Cert", <<cert.name>>)>>]]

\* The call on line 148: the certificate in scope is no part of it.
FetchCall(u, m, b, cert) == [url |-> u, options |-> RequestOptions(m, b)]

-----------------------------------------------------------------------------
(* Header collection (ApiClient.tsx 151-154, 158) *)

HasKey(obj, key) == \E i \in 1..Len(obj) : obj[i].name = key

\* headers[key] = value on an object literal: a key the object has is overwritten in
\* place, a new key is appended, and "__proto__" reaches the prototype setter of
\* Object.prototype, which ignores a string and creates no own property.
Assign(obj, key, value) ==
    IF key = "__proto__" THEN obj
    ELSE IF HasKey(obj, key)
    THEN [i \in 1..Len(obj) |-> IF obj[i].name = key THEN Hdr(key, value) ELSE obj[i]]
    ELSE Append(obj, Hdr(key, value))

RECURSIVE CollectInto(_, _)
CollectInto(obj, raw) ==
    IF raw = <<>> THEN obj
    ELSE CollectInto(Assign(obj, raw[1].name, raw[1].value), Tail(raw))

CollectHeaders(raw) == CollectInto(<<>>, raw)

\* Headers.get(name): the values of the name joined by ", ", or null.
HeadersGet(raw, name) ==
    LET vs == SelectValues(raw, name)
    IN  IF vs = <<>> THEN Null ELSE [value |-> Join(vs, <<", ">>)]

-----------------------------------------------------------------------------
(* Response body decoding (ApiClient.tsx 156-178) *)

ParseFailure(error) == StringData(<<"Failed to parse response: ">> \o error.message)

IsJsonContentType(contentType) ==
    contentType # Null /\ contentType.value # <<>> /\ Includes(contentType.value, JsonType)

LooksLikeJsonNoTrim(text) == StartsWith(text, "{") \/ StartsWith(text, "[")

LooksLikeJson(text) == StartsWith(Trim(text), "{") \/ StartsWith(Trim(text), "[")

DecodeBody(contentType, text) ==
    LET p == JsonParse(text)
    IN  IF IsJsonContentType(contentType)
        THEN IF p.ok THEN JsonData(p.value) ELSE ParseFailure(p.error)
        ELSE IF LooksLikeJson(text) /\ p.ok THEN JsonData(p.value)
        ELSE StringData(text)

-----------------------------------------------------------------------------
(* Status explanation (ApiClient.tsx 188-202) *)

Line4xx == "- Client-side error (invalid request parameters, authentication issues, etc.)"
Line5xx == "- Server-side error (internal errors, service unavailable, etc.)"
Line401 == "- Authentication required or failed"
Line403 == "- Insufficient permissions to access the resource"
Line404 == "- Resource not found at the specified endpoint"
Line429 == "- Rate limit exceeded (too many requests)"
Line500 == "- Internal server error (generic server failure)"
Line502 == "- Bad gateway (upstream server received an invalid response)"
Line503 == "- Service unavailable (server is overloaded or down for maintenance)"
Line504 == "- Gateway timeout (server didn't receive timely response from upstream server)"

ExplanationLinesOpen4xx(status) ==
    <<IF status >= 400 THEN Line4xx ELSE "",
      IF status >= 500 THEN Line5xx ELSE "",
      IF status = 401 THEN Line401 ELSE "",
      IF status = 403 THEN Line403 ELSE "",
      IF status = 404 THEN Line404 ELSE "",
      IF status = 429 THEN Line429 ELSE "",
      IF status = 500 THEN Line500 ELSE "",
      IF status = 502 THEN Line502 ELSE "",
      IF status = 503 THEN Line503 ELSE "",
      IF status = 504 THEN Line504 ELSE "">>

\* The ten interpolations of the template, each a line or the empty string.
ExplanationLines(status) ==
    <<IF status >= 400 /\ status < 500 THEN Line4xx ELSE "",
      IF status >= 500 THEN Line5xx ELSE "",
      IF status = 401 THEN Line401 ELSE "",
      IF status = 403 THEN Line403 ELSE "",
      IF status = 404 THEN Line404 ELSE "",
      IF status = 429 THEN Line429 ELSE "",
      IF status = 500 THEN Line500 ELSE "",
      IF status = 502 THEN Line502 ELSE "",
      IF status = 503 THEN Line503 ELSE "",
      IF status = 504 THEN Line504 ELSE "">>

ExplanationHead(status, statusText) ==
    <<"HTTP Error ", ToString(status), " (", statusText,
      "): The server returned an error response. \n        \nCommon causes for HTTP ",
      ToString(status), ":\n">>

HttpErrorExplanation(status, statusText) ==
    ExplanationHead(status, statusText)
    \o Join([i \in 1..10 |-> <<ExplanationLines(status)[i]>>], <<"\n">>)

\* Response.ok
IsOk(status) == status >= 200 /\ status <= 299

-----------------------------------------------------------------------------
(* The records sendRequest stores (ApiClient.tsx 180-186, 204-223) *)

MessageOf(error) ==
    IF error.message # <<>> THEN error.message ELSE <<"Unknown error occurred">>

ErrorResponseNoBlock(error, time) ==
    [status |-> 0, statusText |-> "Error", headers |-> <<>>,
     data |-> StringData(MessageOf(error)), time |-> time]

\* The record of the catch block.
ErrorResponse(error, time) ==
    [status |-> 0,
     statusText |-> "Error",
     headers |-> <<>>,
     data |-> StringData(MessageOf(error)),
     time |-> time,
     error |-> [message |-> MessageOf(error),
                stack |-> error.stack,
                type |-> error.name,
                details |-> formatErrorDetails(error)]]

HttpResponseFatal(r, hdrs, data, time) ==
    IF IsOk(r.status)
    THEN [status |-> r.status, statusText |-> r.statusText, headers |-> hdrs,
          data |-> data, time |-> time]
    ELSE [status |-> r.status, statusText |-> r.statusText, headers |-> hdrs,
          data |-> data, time |-> time,
          error |-> [message |-> <<"HTTP error">>, stack |-> <<>>, type |-> "HttpStatusError",
                     details |-> <<>>]]

\* The record of the try block.
HttpResponse(r, hdrs, data, time) ==
    [status |-> r.status, statusText |-> r.statusText, headers |-> hdrs,
     data |-> data, time |-> time]

ReadFailureAsTransport(r, hdrs, error, time) == ErrorResponse(error, time)

\* The record stored when reading the body rejected: the inner catch (175-178)
\* replaces the data and the try block goes on.
ReadFailureResponse(r, hdrs, error, time) == HttpResponse(r, hdrs, ParseFailure(error), time)

Details(text) == [text |-> text]

-----------------------------------------------------------------------------
(* ResponseViewer: the Error tab (part_001 66-99, 140-181) *)

getNetworkErrorHelpPrefix(errorMessage) ==
    SubSeq(errorMessage, 1, Len(FailedToFetch)) = FailedToFetch

\* TRUE when the troubleshooting note is rendered, FALSE for null.
getNetworkErrorHelp(errorMessage) == Includes(errorMessage, FailedToFetch)

\* What the Error tab renders of a response that has an error block.
ErrorTab(r) ==
    [message |-> r.error.message,
     type |-> IF r.error.type # "" THEN [value |-> r.error.type] ELSE Null,
     stack |-> IF r.error.stack # <<>> THEN [value |-> r.error.stack] ELSE Null,
     details |-> IF r.error.details # <<>> THEN [value |-> r.error.details] ELSE Null,
     networkHelp |-> getNetworkErrorHelp(r.error.message)]

HasErrorBlock(r) == r # Null /\ "error" \in DOMAIN r

-----------------------------------------------------------------------------
(* The dispatcher *)

NoOutcome == [path |-> "none", parsed |-> FALSE, error |-> Null, res |-> Null, text |-> Null]

MainInit ==
    /\ url = <<>>
    /\ method = "GET"
    /\ body = <<>>
    /\ certificate = Null
    /\ loading = FALSE
    /\ response = Null
    /\ errorDetails = Null
    /\ toast = "none"
    /\ console = Null
    /\ pc = "idle"
    /\ pending = Null
    /\ res = Null
    /\ headers = <<>>
    /\ startTime = 0
    /\ endTime = 0
    /\ now = 0
    /\ calls = 0
    /\ outcome = NoOutcome

HdrIdle == hRaw = <<>> /\ hIdx = 1 /\ hOut = <<>>
DecIdle == dType = Null /\ dText = <<>> /\ dData = Null /\ dDone = FALSE
ExpIdle == eStatus = 200 /\ eText = Null

\* useState("body") (ResponseViewer 25).
ViewerIdle == activeTab = "body"

Init == MainInit /\ HdrIdle /\ DecIdle /\ ExpIdle /\ ViewerIdle

setUrl(value) ==
    /\ url' = value
    /\ UNCHANGED <<method, body, certificate, loading, response, errorDetails, toast,
                   pc, pending, res, headers, startTime, endTime, now, calls, outcome>>
    /\ UNCHANGED console
    /\ UNCHANGED sideVars

handleMethodChange(value) ==
    /\ method' = value
    /\ UNCHANGED <<url, body, certificate, loading, response, errorDetails, toast,
                   pc, pending, res, headers, startTime, endTime, now, calls, outcome>>
    /\ UNCHANGED console
    /\ UNCHANGED sideVars

\* The textarea exists only for a method that takes a body (RequestBody.tsx 12-20).
handleBodyChange(value) ==
    /\ method \notin {"GET", "HEAD"}
    /\ body' = value
    /\ UNCHANGED <<url, method, certificate, loading, response, errorDetails, toast,
                   pc, pending, res, headers, startTime, endTime, now, calls, outcome>>
    /\ UNCHANGED console
    /\ UNCHANGED sideVars

handleCertificateChange(files) ==
    /\ IF Len(files) > 0
       THEN certificate' = [name |-> files[1]] /\ toast' = "Certificate uploaded"
       ELSE UNCHANGED <<certificate, toast>>
    /\ UNCHANGED <<url, method, body, loading, response, errorDetails,
                   pc, pending, res, headers, startTime, endTime, now, calls, outcome>>
    /\ UNCHANGED console
    /\ UNCHANGED sideVars

\* Time passes. Only differences of Date.now() reach the state, so the clock is
\* kept relative to the submission under way and rests at 0 between submissions.
Tick ==
    /\ pc # "idle"
    /\ now < MaxClock
    /\ now' = now + 1
    /\ UNCHANGED <<url, method, body, certificate, loading, response, errorDetails, toast,
                   pc, pending, res, headers, startTime, endTime, calls, outcome>>
    /\ UNCHANGED console
    /\ UNCHANGED sideVars

\* The catch and finally blocks (204-232), with the locals going out of scope.
FinallyLoadingKept == loading

\* The value finally stores in loading (230-232).
FinallyLoading == FALSE

Fail(error, elapsed, path, parsed, r) ==
    /\ errorDetails' = Details(formatErrorDetails(error))
    /\ response' = ErrorResponse(error, elapsed)
    /\ now' = 0
    /\ toast' = "Request failed"
    /\ loading' = FinallyLoading
    /\ pc' = "idle"
    /\ pending' = Null
    /\ res' = Null
    /\ headers' = <<>>
    /\ startTime' = 0
    /\ endTime' = 0
    /\ outcome' = [path |-> path, parsed |-> parsed, error |-> error, res |-> r, text |-> Null]

\* setResponse, the explanation and finally (180-202, 230-232).
Finish(record, path, text) ==
    /\ response' = record
    /\ errorDetails' = IF ~IsOk(res.status)
                       THEN Details(HttpErrorExplanation(res.status, res.statusText))
                       ELSE Null
    /\ loading' = FinallyLoading
    /\ pc' = "idle"
    /\ res' = Null
    /\ headers' = <<>>
    /\ startTime' = 0
    /\ endTime' = 0
    /\ outcome' = [outcome EXCEPT !.path = path, !.text = text]
    /\ now' = 0
    /\ UNCHANGED <<url, method, body, certificate, toast, pending, calls>>

StaleResponse == response

\* What the start of a submission stores in response (115).
ClearedResponse == Null

SendNeverDisabled == FALSE

\* The Send button's disabled attribute (267).
SendDisabled == loading

\* A click on Send, which a disabled button does not deliver.
sendRequest ==
    /\ ~SendDisabled
    /\ IF url = <<>>
       THEN /\ toast' = "URL is required"
            /\ UNCHANGED <<loading, response, errorDetails, pc, pending, res, headers,
                           startTime, endTime, now, calls, outcome, console>>
       ELSE IF ~URLParses(url)
       THEN /\ \E elapsed \in 0..MaxClock :
                    Fail(InvalidUrlError(url), elapsed, "invalidUrl", FALSE, Null)
            /\ calls' = 0
            /\ UNCHANGED console
       ELSE IF RequestBody(method, body).error # Null
       THEN /\ \E elapsed \in 0..MaxClock :
                    Fail(RequestBody(method, body).error, elapsed, "invalidBody", TRUE, Null)
            /\ calls' = 0
            /\ UNCHANGED console
       ELSE /\ loading' = TRUE
            /\ response' = ClearedResponse
            /\ errorDetails' = Null
            /\ startTime' = now
            /\ console' = IF certificate # Null THEN CertificateLog(certificate) ELSE console
            /\ pending' = FetchCall(url, method, body, certificate)
            /\ pc' = "fetch"
            /\ calls' = 1
            /\ outcome' = [NoOutcome EXCEPT !.path = "pending",
                                            !.parsed = RequestBody(method, body).parsed]
            /\ UNCHANGED <<toast, res, headers, endTime, now>>
    /\ UNCHANGED <<url, method, body, certificate>>
    /\ UNCHANGED sideVars

\* fetch resolves: endTime is read, the headers are collected and the body is awaited.
fetchResolve(status, raw) ==
    /\ pc = "fetch"
    /\ res' = [status |-> status, statusText |-> ReasonPhrase(status), rawHeaders |-> raw]
    /\ endTime' = now
    /\ headers' = CollectHeaders(raw)
    /\ pending' = Null
    /\ pc' = "body"
    /\ outcome' = [outcome EXCEPT !.path = "response", !.res = res']
    /\ UNCHANGED <<url, method, body, certificate, loading, response, errorDetails, toast,
                   startTime, now, calls>>
    /\ UNCHANGED console
    /\ UNCHANGED sideVars

fetchRejectRetry(error) ==
    /\ pc = "fetch"
    /\ calls' = calls + 1
    /\ UNCHANGED <<url, method, body, certificate, loading, response, errorDetails, toast,
                   pc, pending, res, headers, startTime, endTime, now, outcome>>
    /\ UNCHANGED console
    /\ UNCHANGED sideVars

\* fetch rejects: the catch block.
fetchReject(error) ==
    /\ pc = "fetch"
    /\ Fail(error, now - startTime, "transport", outcome.parsed, Null)
    /\ UNCHANGED <<url, method, body, certificate, calls>>
    /\ UNCHANGED console
    /\ UNCHANGED sideVars

\* res.json() or res.text() settles with the text of the body.
bodyRead(text) ==
    /\ pc = "body"
    /\ Finish(HttpResponse(res, headers,
                           DecodeBody(HeadersGet(res.rawHeaders, "content-type"), text),
                           endTime - startTime),
              "response", [value |-> text])
    /\ UNCHANGED console
    /\ UNCHANGED sideVars

\* res.json() or res.text() rejects before the body is complete.
bodyReadFail(error) ==
    /\ pc = "body"
    /\ Finish(ReadFailureResponse(res, headers, error, endTime - startTime), "readFailed", Null)
    /\ UNCHANGED console
    /\ UNCHANGED sideVars

Next ==
    \/ \E value \in Urls : setUrl(value)
    \/ \E value \in HttpMethods : handleMethodChange(value)
    \/ \E value \in Bodies : handleBodyChange(value)
    \/ \E files \in {<<>>} \cup {<<f>> : f \in Files} : handleCertificateChange(files)
    \/ Tick
    \/ sendRequest
    \/ \E status \in Statuses, raw \in HeaderLists : fetchResolve(status, raw)
    \/ \E error \in TransportErrors : fetchReject(error)
    \/ \E text \in Bodies : bodyRead(text)
    \/ \E error \in ReadErrors : bodyReadFail(error)

Spec == Init /\ [][Next]_vars

\* The promise of fetch settles, and so does the promise of the body read.
FetchSettles ==
    \/ \E status \in Statuses, raw \in HeaderLists : fetchResolve(status, raw)
    \/ \E error \in TransportErrors : fetchReject(error)

BodySettles ==
    \/ \E text \in Bodies : bodyRead(text)
    \/ \E error \in ReadErrors : bodyReadFail(error)

\* The submissions of a user who types one URL of each kind and picks one method
\* without and one with a body, and leaves the certificate alone.
SettlingUrls == {<<>>, <<"h">>, <<"h", ":">>}

SettlingMethods == {"GET", "POST"}

NextSettling ==
    \/ \E value \in SettlingUrls : setUrl(value)
    \/ \E value \in SettlingMethods : handleMethodChange(value)
    \/ \E value \in Bodies : handleBodyChange(value)
    \/ Tick
    \/ sendRequest
    \/ FetchSettles
    \/ BodySettles

SpecSettling ==
    Init /\ [][NextSettling]_vars /\ WF_vars(FetchSettles) /\ WF_vars(BodySettles)

-----------------------------------------------------------------------------
(* Header collection on its own: res.headers.forEach over any delivered list *)

Pairs == {Hdr(n, v) : n \in HeaderNames, v \in HeaderValues}

RECURSIVE Lists(_, _)
Lists(S, n) ==
    IF n = 0 THEN {<<>>}
    ELSE LET shorter == Lists(S, n - 1)
         IN  shorter \cup {Append(l, x) : l \in {t \in shorter : Len(t) = n - 1}, x \in S}

InitHeaders ==
    /\ MainInit /\ DecIdle /\ ExpIdle /\ ViewerIdle
    /\ hRaw \in Lists(Pairs, MaxHdrs)
    /\ hIdx = 1
    /\ hOut = <<>>

\* One call of the forEach callback (153).
collectHeader ==
    /\ hIdx <= Len(hRaw)
    /\ hOut' = Assign(hOut, hRaw[hIdx].name, hRaw[hIdx].value)
    /\ hIdx' = hIdx + 1
    /\ UNCHANGED <<hRaw, mainVars, decVars, expVars, viewerVars>>

NextHeaders == collectHeader

SpecHeaders == InitHeaders /\ [][NextHeaders]_vars

-----------------------------------------------------------------------------
(* Body decoding on its own: any content type, any text over JsonAlphabet *)

ContentTypes ==
    {Null, [value |-> <<>>], [value |-> JsonType], [value |-> <<"text/plain">>],
     [value |-> <<"application/json", "; charset=utf-8">>]}

InitDecode ==
    /\ MainInit /\ HdrIdle /\ ExpIdle /\ ViewerIdle
    /\ dType \in ContentTypes
    /\ dText \in Strings(JsonAlphabet, MaxTextLen)
    /\ dData = Null
    /\ dDone = FALSE

decode ==
    /\ ~dDone
    /\ dData' = DecodeBody(dType, dText)
    /\ dDone' = TRUE
    /\ UNCHANGED <<dType, dText, mainVars, hdrVars, expVars, viewerVars>>

NextDecode == decode

SpecDecode == InitDecode /\ [][NextDecode]_vars

-----------------------------------------------------------------------------
(* Status explanation on its own: every status a response can carry *)

InitExplain ==
    /\ MainInit /\ HdrIdle /\ DecIdle /\ ViewerIdle
    /\ eStatus \in AllStatuses
    /\ eText = Null

explain ==
    /\ eText = Null
    /\ ~IsOk(eStatus)
    /\ eText' = Details(HttpErrorExplanation(eStatus, ReasonPhrase(eStatus)))
    /\ UNCHANGED <<eStatus, mainVars, hdrVars, decVars, viewerVars>>

NextExplain == explain

SpecExplain == InitExplain /\ [][NextExplain]_vars

-----------------------------------------------------------------------------
(* Claims on the dispatcher *)

HasNoScheme(u) == (\A i \in 1..Len(u) : u[i] # ":") \/ u[1] = ":"

FailureRecord(r) == HasErrorBlock(r) /\ r.status = 0

NoCallIssued == pc' = "idle" /\ pending' = Null /\ calls' = 0

\* C1: a click on Send with a non-empty URL that has no scheme ends at once with a
\* failure record whose message is the invalid-URL message around the URL typed,
\* and issues no fetch.
C1_InvalidUrlNoFetch ==
    [][(sendRequest /\ url # <<>> /\ HasNoScheme(url))
        => /\ FailureRecord(response')
           /\ Includes(response'.error.message, <<"Invalid URL: ">> \o url)
           /\ response'.data.val = response'.error.message
           /\ NoCallIssued]_vars

C1_Witness ==
    /\ outcome.path = "invalidUrl"
    /\ FailureRecord(response)
    /\ Includes(response.error.message, <<"Invalid URL: ", "h">>)
    /\ calls = 0

\* C2: a click on Send with a URL that parses, a method that takes a body and a
\* non-empty body that is not JSON ends at once with a failure record whose message
\* is the invalid-body message around the parser's message, and issues no fetch.
C2_InvalidBodyNoFetch ==
    [][(sendRequest /\ URLParses(url) /\ method \in {"POST", "PUT", "DELETE", "PATCH", "OPTIONS"}
            /\ body # <<>> /\ ~IsJsonValue(body))
        => /\ FailureRecord(response')
           /\ Includes(response'.error.message,
                       <<"Invalid JSON in request body: ">> \o JsonErrorMessage(body))
           /\ NoCallIssued]_vars

C2_Witness ==
    /\ outcome.path = "invalidBody"
    /\ FailureRecord(response)
    /\ Includes(response.error.message, <<"Invalid JSON in request body: ">>)
    /\ calls = 0

\* C3: a click on Send with method GET or HEAD never runs JSON.parse on the body
\* held in state and attaches no body, and with a URL that parses the request is
\* dispatched whatever the body is.
C3_BodyIgnoredForGetHead ==
    [][(sendRequest /\ url # <<>> /\ method \in {"GET", "HEAD"})
        => /\ ~outcome'.parsed
           /\ URLParses(url) => /\ pc' = "fetch"
                                /\ pending'.options.method = method
                                /\ pending'.options.body = Null]_vars

C3_Witness ==
    /\ pc = "fetch"
    /\ pending.options.method = "HEAD"
    /\ method = "HEAD"
    /\ body = <<"{">>
    /\ pending.options.body = Null

\* A failure record in the uniform shape: status 0, no headers, the message as
\* data, and an error block of message, type, stack and details.
UniformFailure(r) ==
    /\ r # Null
    /\ r.status = 0
    /\ r.headers = <<>>
    /\ DOMAIN r = {"status", "statusText", "headers", "data", "time", "error"}
    /\ DOMAIN r.error = {"message", "type", "stack", "details"}
    /\ r.data = StringData(r.error.message)
    /\ r.error.message # <<>>

EndsInFailure ==
    \/ sendRequest /\ pc' = "idle"
    \/ \E error \in TransportErrors : fetchReject(error)

\* C4 as stated: every failing submission, the one with an empty URL included,
\* ends with a failure record in the uniform shape.
C4_EveryFailureStoresRecord == [][EndsInFailure => UniformFailure(response')]_vars

\* C4 as amended: a failing submission with a non-empty URL ends with a failure
\* record in the uniform shape, its details shown as errorDetails; a click with an
\* empty URL raises the toast and leaves the stored response as it was.
C4_FailureStoresRecordUnlessUrlEmpty ==
    [][/\ (EndsInFailure /\ url # <<>>)
            => /\ UniformFailure(response')
               /\ errorDetails' = Details(response'.error.details)
               /\ ~loading'
       /\ (sendRequest /\ url = <<>>)
            => /\ response' = response
               /\ errorDetails' = errorDetails
               /\ toast' = "URL is required"]_vars

C4_Witness ==
    /\ toast = "URL is required"
    /\ url = <<>>
    /\ outcome.path = "transport"
    /\ UniformFailure(response)
    /\ response.error.type = "TypeError"

FailedBeforeResponse == outcome.path \in {"invalidUrl", "invalidBody", "transport"}
ObtainedResponse == outcome.path \in {"response", "readFailed"}

\* C5: the stored record has status 0 exactly when the submission that stored it
\* failed before fetch resolved; once fetch resolved, the record has the status of
\* that response and the headers collected from it, also when reading or decoding
\* the body failed.
C5_StatusZeroIffNoResponse ==
    response # Null =>
        /\ FailedBeforeResponse \/ ObtainedResponse
        /\ response.status = 0 <=> FailedBeforeResponse
        /\ ObtainedResponse =>
            /\ response.status = outcome.res.status
            /\ response.statusText = outcome.res.statusText
            /\ response.headers = CollectHeaders(outcome.res.rawHeaders)
            /\ ~HasErrorBlock(response)

C5_Witness ==
    /\ outcome.path = "readFailed"
    /\ response # Null
    /\ response.status = 404
    /\ response.headers # <<>>
    /\ response.data = ParseFailure([message |-> <<"network error">>])

\* C6 as stated: after a submission that obtained a response, errorDetails is set
\* exactly when the status is outside 200..399.
C6_ExplanationIffOutside2xx3xx ==
    (response # Null /\ ObtainedResponse) =>
        (errorDetails # Null <=> response.status \notin 200..399)

\* C8: after a transport failure the record has status 0 and an error block, and the
\* Error tab renders the troubleshooting note exactly when the message fetch rejected
\* with has "Failed to fetch" somewhere in it; no other failure message gets it.
C8_NetworkHelpIffFailedToFetch ==
    (response # Null /\ FailedBeforeResponse) =>
        /\ FailureRecord(response)
        /\ ErrorTab(response).networkHelp
             <=> \E i \in 1..Len(outcome.error.message) :
                     outcome.error.message[i] = "Failed to fetch"

C8_Witness ==
    /\ outcome.path = "transport"
    /\ outcome.error.message = <<"TypeError: ", "Failed to fetch">>
    /\ response.status = 0
    /\ ErrorTab(response).networkHelp

-----------------------------------------------------------------------------
(* Claims on the pure steps *)

ExpectedLines(status) ==
    (IF status >= 400 /\ status < 500 THEN <<Line4xx>> ELSE <<>>)
    \o (IF status >= 500 THEN <<Line5xx>> ELSE <<>>)
    \o (IF status = 401 THEN <<Line401>> ELSE <<>>)
    \o (IF status = 403 THEN <<Line403>> ELSE <<>>)
    \o (IF status = 404 THEN <<Line404>> ELSE <<>>)
    \o (IF status = 429 THEN <<Line429>> ELSE <<>>)
    \o (IF status = 500 THEN <<Line500>> ELSE <<>>)
    \o (IF status = 502 THEN <<Line502>> ELSE <<>>)
    \o (IF status = 503 THEN <<Line503>> ELSE <<>>)
    \o (IF status = 504 THEN <<Line504>> ELSE <<>>)

\* The text of an explanation after its head, without the line breaks and the
\* empty interpolations.
LinesOf(text) ==
    SelectSeq(SubSeq(text, Len(ExplanationHead(0, "")) + 1, Len(text)),
              LAMBDA t : t \notin {"", "\n"})

\* C7: the explanation of a status is its head followed by exactly the lines whose
\* predicate the status meets, in the order of the template.
C7_ExplanationLinesMatchStatus ==
    eText # Null =>
        /\ SubSeq(eText.text, 1, Len(ExplanationHead(0, "")))
             = ExplanationHead(eStatus, ReasonPhrase(eStatus))
        /\ LinesOf(eText.text) = ExpectedLines(eStatus)

C7_Witness ==
    /\ eStatus = 404
    /\ eText # Null
    /\ LinesOf(eText.text) = <<Line4xx, Line404>>

NamesOf(raw) == {raw[i].name : i \in 1..Len(raw)}

LastValue(raw, n) ==
    raw[CHOOSE i \in 1..Len(raw) :
            raw[i].name = n /\ \A j \in (i + 1)..Len(raw) : raw[j].name # n].value

\* C9 as stated: once every delivered pair is collected, each delivered name is a
\* key exactly once, with the last value delivered for it, and no other key exists.
C9_HeadersRoundTrip ==
    hIdx > Len(hRaw) =>
        /\ \A n \in NamesOf(hRaw) :
              /\ Cardinality({i \in 1..Len(hOut) : hOut[i].name = n}) = 1
              /\ \E i \in 1..Len(hOut) : hOut[i] = Hdr(n, LastValue(hRaw, n))
        /\ NamesOf(hOut) \subseteq NamesOf(hRaw)

FirstNonSpace(text) ==
    IF \E i \in 1..Len(text) : text[i] # " "
    THEN text[CHOOSE i \in 1..Len(text) : text[i] # " " /\ \A j \in 1..(i - 1) : text[j] = " "]
    ELSE ""

\* C10: with a content type that has application/json in it, a body that is JSON
\* is decoded; with any other content type the text is decoded when its first
\* character after the leading whitespace is { or [ and it is JSON, and kept
\* unchanged otherwise.
C10_DecodeByContentType ==
    dDone =>
        IF dType # Null /\ \E i \in 1..Len(dType.value) : dType.value[i] = "application/json"
        THEN IsJsonValue(dText) => dData = JsonData(JsonValueOf(dText))
        ELSE IF FirstNonSpace(dText) \in {"{", "["} /\ IsJsonValue(dText)
        THEN dData = JsonData(JsonValueOf(dText))
        ELSE dData = StringData(dText)

\* A text kept unchanged although it is JSON, and one decoded after whitespace.
C10_Witness ==
    /\ dDone
    /\ dType = [value |-> <<"text/plain">>]
    /\ \/ dText = <<" ", "1">> /\ dData = StringData(<<" ", "1">>)
       \/ dText = <<" ", "{", "}">> /\ dData = JsonData(<<"{", "}">>)

-----------------------------------------------------------------------------
(* Claims on decode failures, time and retries *)

ResponseContentType == HeadersGet(outcome.res.rawHeaders, "content-type")

\* C11 as stated: a response with a JSON content type whose body is present and
\* not JSON is stored with its own status and no error block, its data holding the
\* raw text of the body together with a placeholder.
C11_DecodeFailureKeepsRawText ==
    (/\ response # Null
     /\ outcome.path = "response"
     /\ IsJsonContentType(ResponseContentType)
     /\ outcome.text.value # <<>>
     /\ ~IsJsonValue(outcome.text.value))
        => /\ response.status = outcome.res.status
           /\ response.status # 0
           /\ ~HasErrorBlock(response)
           /\ response.data.type = "string"
           /\ Includes(response.data.val, outcome.text.value)
           /\ response.data.val # outcome.text.value

\* C12 as stated: the time recorded by a successful submission runs from the read
\* of startTime, before the dispatch, to the moment the body has been read: it is
\* not negative and it is the whole time to the end of the body.
C12_TimeCoversBodyRead ==
    [][(\E text \in Bodies : bodyRead(text))
        => /\ response'.time >= 0
           /\ response'.time = now - startTime]_vars

SubmissionFails ==
    \/ sendRequest /\ url # <<>> /\ pc' = "idle"
    \/ \E error \in TransportErrors : fetchReject(error)
    \/ \E error \in ReadErrors : bodyReadFail(error)

\* C13: a submission issues at most one fetch; a fetch is issued only by a click on
\* Send, and a submission that fails in validation, in transport or in reading the
\* body ends with no call in flight and none added.
C13_NothingRetried ==
    [][/\ calls' <= 1
       /\ (pc' = "fetch" /\ (pc # "fetch" \/ calls' # calls \/ pending' # pending)) => sendRequest
       /\ SubmissionFails => /\ pc' = "idle"
                             /\ pending' = Null
                             /\ ~loading'
                             /\ calls' <= calls]_vars

C13_Witness ==
    /\ outcome.path = "transport"
    /\ calls = 1
    /\ pc = "idle"
    /\ pending = Null
    /\ FailureRecord(response)

\* C14: a response with a status of 400 or more is stored as a response, not as a
\* failure: its own status and status text, the headers collected from it, its
\* decoded body, no error block; the explanation of the status is the one addition.
C14_HttpErrorStatusNotFatal ==
    (response # Null /\ ObtainedResponse /\ outcome.res.status >= 400) =>
        /\ response.status = outcome.res.status
        /\ response.statusText = outcome.res.statusText
        /\ response.headers = CollectHeaders(outcome.res.rawHeaders)
        /\ outcome.path = "response" =>
               response.data = DecodeBody(ResponseContentType, outcome.text.value)
        /\ DOMAIN response = {"status", "statusText", "headers", "data", "time"}
        /\ errorDetails = Details(HttpErrorExplanation(outcome.res.status, outcome.res.statusText))
        /\ ~loading

C14_Witness ==
    /\ response # Null
    /\ outcome.path = "response"
    /\ response.status = 404
    /\ response.statusText = "Not Found"
    /\ response.data = JsonData(<<"1">>)
    /\ errorDetails # Null
    /\ Includes(errorDetails.text, <<Line404>>)

-----------------------------------------------------------------------------
(* Claims on the certificate, the Send button and the loading flag *)

\* Every value the certificate state can hold (state 36, handler 49-57).
SelectableCertificates == {Null} \cup {[name |-> f] : f \in Files}

\* The stored record and error details as determined by the outcome of the
\* submission alone.
RecordFromOutcome ==
    response # Null =>
        /\ FailedBeforeResponse =>
               /\ response = ErrorResponse(outcome.error, response.time)
               /\ errorDetails = Details(formatErrorDetails(outcome.error))
        /\ outcome.path = "response" =>
               /\ response = HttpResponse(outcome.res,
                                          CollectHeaders(outcome.res.rawHeaders),
                                          DecodeBody(ResponseContentType, outcome.text.value),
                                          response.time)
               /\ errorDetails = IF IsOk(outcome.res.status) THEN Null
                                 ELSE Details(HttpErrorExplanation(outcome.res.status,
                                                                   outcome.res.statusText))

\* C15: the selected certificate has no influence on the request or on what
\* is stored. The request a click issues is the one every other certificate
\* selection (none included) would have issued for the same URL, method and
\* body; selecting a certificate changes nothing but the certificate and the
\* toast; and the stored record and error details are determined by the
\* outcome of the submission.
C15_CertificateNeverInfluences ==
    /\ []RecordFromOutcome
    /\ [][/\ (pc = "idle" /\ pc' = "fetch") =>
                 \A c \in SelectableCertificates :
                     pending' = FetchCall(url, method, body, c)
          /\ certificate' # certificate =>
                 UNCHANGED <<url, method, body, loading, response, errorDetails,
                             pc, pending, res, headers, calls, outcome>>]_vars

\* A request with a body went out while a certificate was selected and
\* logged, and failed in transport.
C15_Witness ==
    /\ certificate = [name |-> "a.pem"]
    /\ console = CertificateLog(certificate)
    /\ outcome.path = "transport"
    /\ calls = 1
    /\ FailureRecord(response)

\* C16: at most one request is in flight. loading is true exactly while a
\* submission is in progress; a submission starts, and its request is
\* dispatched, only while loading is false and nothing is pending; and the
\* step that resets loading leaves no request pending.
C16_OneRequestInFlight ==
    /\ [](loading <=> pc # "idle")
    /\ [](pending # Null => pc = "fetch" /\ calls = 1)
    /\ [][/\ (pc' = "fetch" /\ pc # "fetch") => (~loading /\ pc = "idle" /\ pending = Null)
          /\ (pending' # Null /\ pending' # pending) => (~loading /\ pending = Null)
          /\ (loading /\ ~loading') => (pending' = Null /\ pc' = "idle")]_vars

\* A request is in flight, time has passed since its dispatch, and Send is
\* disabled.
C16_Witness ==
    /\ loading
    /\ SendDisabled
    /\ pc = "fetch"
    /\ pending # Null
    /\ now = MaxClock
    /\ startTime = 0

\* C17: provided the pending fetch and the body read settle, a submission that
\* has set loading to true sets it back to false, and loading is false whenever
\* no submission is in progress.
C17_LoadingEventuallyReset ==
    /\ loading ~> ~loading
    /\ [](pc = "idle" => ~loading)

\* A submission went through the fetch and the body read and reset loading.
C17_Witness ==
    /\ ~loading
    /\ pc = "idle"
    /\ outcome.path = "readFailed"
    /\ response # Null

\* C18: no stale result is shown during a request. While loading is true the
\* stored response and the error details are null; the step that sets loading
\* clears both; and either changes only in that step or in the step that ends
\* a submission, which stores that submission's record.
C18_NoStaleResultWhileLoading ==
    /\ [](loading => (response = Null /\ errorDetails = Null))
    /\ [][/\ (~loading /\ loading') => (response' = Null /\ errorDetails' = Null)
          /\ (response' # response \/ errorDetails' # errorDetails) =>
                 \/ ~loading /\ loading'
                 \/ /\ ~loading' /\ pc' = "idle"
                    /\ outcome'.path \notin {"none", "pending"}
                    /\ response' # Null]_vars

\* A submission is in progress after an earlier one failed and stored its
\* record and details: both are gone.
C18_Witness ==
    /\ loading
    /\ toast = "Request failed"
    /\ response = Null
    /\ errorDetails = Null
    /\ pc = "body"

-----------------------------------------------------------------------------
(* ResponseViewer under ApiClient (ApiClient.tsx 325, ResponseViewer 25-33, 112-181) *)

\* The triggers the tab list renders for a response (113-117).
VisibleTabs(r) == {"body", "headers"} \cup (IF HasErrorBlock(r) THEN {"error"} ELSE {})

\* A click on a rendered trigger: onValueChange={setActiveTab} (112). Without a
\* response the placeholder is returned and no trigger is rendered (27-33).
setActiveTab(tab) ==
    /\ response # Null
    /\ tab \in VisibleTabs(response)
    /\ activeTab' = tab
    /\ UNCHANGED <<mainVars, hdrVars, decVars, expVars>>

\* The viewer stays mounted under ApiClient, whose response state is its prop.
NextViewer ==
    \/ \E value \in SettlingUrls : setUrl(value)
    \/ \E value \in SettlingMethods : handleMethodChange(value)
    \/ \E value \in Bodies : handleBodyChange(value)
    \/ Tick
    \/ sendRequest
    \/ FetchSettles
    \/ BodySettles
    \/ \E tab \in {"body", "headers", "error"} : setActiveTab(tab)

SpecViewer == Init /\ [][NextViewer]_vars

\* C19: whenever a response is displayed, the selected tab is 'body' or
\* 'headers', or is 'error' while the displayed response has an error block.
C19_ActiveTabHasContent ==
    response # Null =>
        \/ activeTab \in {"body", "headers"}
        \/ activeTab = "error" /\ HasErrorBlock(response)

====
